---------------------------- MODULE Spec2Model ----------------------------
(***************************************************************************)
(* A model of treadmill_app.py (My Activity Tracker): a Streamlit script   *)
(* that logs workouts to a "workouts" worksheet and keeps one settings row *)
(* per user in a "settings" worksheet of a Google spreadsheet.             *)
(*                                                                         *)
(* Numbers.  Python floats are modelled as exact decimals.  A value typed  *)
(* in a text field is held in tenths (200 lb = 2000), a distance in        *)
(* millionths of a km, calories in hundredths of a kcal.  The calorie      *)
(* formula is evaluated in exact rational arithmetic on multi-limb         *)
(* naturals, then rounded half-to-even as round(x, 2) does; the binary     *)
(* rounding error of a double (about 1e-16 relative) is not modelled.      *)
(***************************************************************************)
EXTENDS Integers, Sequences, FiniteSets, TLC

(***************************************************************************)
(* Option values: Python's None is the empty tuple, a value v is <<v>>.    *)
(***************************************************************************)
None == << >>

Some(v) == << v >>

IsNone(x) == x = << >>

Val(x) == x[1]

(***************************************************************************)
(* Multi-limb naturals, least significant limb first, no leading zero      *)
(* limb; 0 is the empty tuple.  The operations are functions, so that an   *)
(* argument is evaluated once, before the call.                            *)
(***************************************************************************)
Limb == 100 * 100

BigNat == Seq(0..(Limb - 1))

BigFromInt[n \in Nat] ==
    IF n = 0 THEN << >> ELSE << n % Limb >> \o BigFromInt[n \div Limb]

BigToInt[a \in BigNat] ==
    IF a = << >> THEN 0 ELSE Head(a) + Limb * BigToInt[Tail(a)]

BigNorm[a \in BigNat] ==
    IF a = << >> THEN << >>
    ELSE IF a[Len(a)] = 0 THEN BigNorm[SubSeq(a, 1, Len(a) - 1)]
    ELSE a

BigAddC[a \in BigNat, b \in BigNat, c \in 0..1] ==
    IF a = << >> /\ b = << >>
    THEN IF c = 0 THEN << >> ELSE << c >>
    ELSE LET s == (IF a = << >> THEN 0 ELSE Head(a)) + (IF b = << >> THEN 0 ELSE Head(b)) + c
         IN  << s % Limb >>
               \o BigAddC[IF a = << >> THEN << >> ELSE Tail(a),
                          IF b = << >> THEN << >> ELSE Tail(b),
                          s \div Limb]

BigAdd(a, b) == BigAddC[a, b, 0]

\* a - b - br for a >= b + br, before normalisation
BigSubB[a \in BigNat, b \in BigNat, br \in 0..1] ==
    IF a = << >> THEN << >>
    ELSE LET s == Head(a) - (IF b = << >> THEN 0 ELSE Head(b)) - br
         IN  << s % Limb >>
               \o BigSubB[Tail(a), IF b = << >> THEN << >> ELSE Tail(b), IF s < 0 THEN 1 ELSE 0]

BigSub(a, b) == BigNorm[BigSubB[a, b, 0]]

\* -1, 0, 1 as a < b, a = b, a > b, comparing the limbs i, i-1, ..., 1
BigCmpFrom[a \in BigNat, b \in BigNat, i \in Nat] ==
    IF i = 0 THEN 0
    ELSE IF a[i] < b[i] THEN -1
    ELSE IF a[i] > b[i] THEN 1
    ELSE BigCmpFrom[a, b, i - 1]

BigCmp[a \in BigNat, b \in BigNat] ==
    IF Len(a) < Len(b) THEN -1
    ELSE IF Len(a) > Len(b) THEN 1
    ELSE BigCmpFrom[a, b, Len(a)]

\* a * m + c for one limb m
BigMulLimb[a \in BigNat, m \in 0..(Limb - 1), c \in Nat] ==
    IF a = << >> THEN BigFromInt[c]
    ELSE LET p == Head(a) * m + c
         IN  << p % Limb >> \o BigMulLimb[Tail(a), m, p \div Limb]

BigShift[a \in BigNat] == IF a = << >> THEN << >> ELSE << 0 >> \o a

BigMul[a \in BigNat, b \in BigNat] ==
    IF b = << >> THEN << >>
    ELSE BigAdd(BigNorm[BigMulLimb[a, Head(b), 0]], BigShift[BigMul[a, Tail(b)]])

\* [q, r] with a = q * m + r for 0 < m < 200000: long division from the top
\* limb, r the remainder so far and q the limbs of the quotient so far
BigDivTop[a \in BigNat, m \in Nat, r \in Nat, q \in BigNat] ==
    IF a = << >> THEN [q |-> BigNorm[q], r |-> r]
    ELSE LET cur == r * Limb + a[Len(a)]
         IN  BigDivTop[SubSeq(a, 1, Len(a) - 1), m, cur % m, << cur \div m >> \o q]

BigDivSmall(a, m) == BigDivTop[a, m, 0, << >>]

BigProd[fs \in Seq(Nat)] ==
    IF fs = << >> THEN << 1 >> ELSE BigMul[BigFromInt[Head(fs)], BigProd[Tail(fs)]]

(***************************************************************************)
(* Exact rationals: sign, numerator, and the denominator as a tuple of     *)
(* factors each below 200000.                                              *)
(***************************************************************************)
Rats == [neg : BOOLEAN, num : BigNat, den : Seq(Nat)]

Rat[n \in Int, fs \in Seq(Nat)] ==
    [neg |-> n < 0, num |-> BigFromInt[IF n < 0 THEN -n ELSE n], den |-> fs]

RZero == Rat[0, << >>]

RMul[x \in Rats, y \in Rats] ==
    [neg |-> x.neg # y.neg, num |-> BigMul[x.num, y.num], den |-> x.den \o y.den]

\* x divided by the product of the factors fs
RDivFactors[x \in Rats, fs \in Seq(Nat)] == [x EXCEPT !.den = x.den \o fs]

\* The numerators of x and y over the common denominator x.den \o y.den
RAddNums[x \in Rats, y \in Rats, a \in BigNat, b \in BigNat] ==
    IF x.neg = y.neg THEN [neg |-> x.neg, num |-> BigAdd(a, b), den |-> x.den \o y.den]
    ELSE IF BigCmp[a, b] >= 0 THEN [neg |-> x.neg, num |-> BigSub(a, b), den |-> x.den \o y.den]
    ELSE [neg |-> y.neg, num |-> BigSub(b, a), den |-> x.den \o y.den]

RAdd[x \in Rats, y \in Rats] ==
    RAddNums[x, y, BigMul[x.num, BigProd[y.den]], BigMul[y.num, BigProd[x.den]]]

\* The results of a division step and of the whole division
DivSteps == [q : BigNat, r : Nat]

DivResults == [q : BigNat, exact : BOOLEAN]

\* floor(d.q / product of fs) and whether every division so far was exact
BigDivFactors[d \in DivSteps, fs \in Seq(Nat), exact \in BOOLEAN] ==
    IF fs = << >> THEN [q |-> d.q, exact |-> exact /\ d.r = 0]
    ELSE BigDivFactors[BigDivSmall(d.q, Head(fs)), Tail(fs), exact /\ d.r = 0]

\* Twice the value rounded to an integer with ties to even, from q2 the floor
\* of twice the value and whether twice the value is an integer
HalfEven[q2 \in Nat, exact \in BOOLEAN] ==
    IF exact /\ q2 % 2 = 1
    THEN (IF ((q2 - 1) \div 2) % 2 = 0 THEN (q2 - 1) \div 2 ELSE (q2 + 1) \div 2)
    ELSE (q2 + 1) \div 2

RoundQuot[d \in DivResults, neg \in BOOLEAN] ==
    IF neg THEN -HalfEven[BigToInt[d.q], d.exact] ELSE HalfEven[BigToInt[d.q], d.exact]

\* round(x * 100) to an integer, ties to even: Python's round(x, 2), in hundredths
Round2[x \in Rats] ==
    RoundQuot[BigDivFactors[[q |-> BigMul[x.num, BigFromInt[200]], r |-> 0], x.den, TRUE], x.neg]

(***************************************************************************)
(* Text typed in a field is a tuple of one-character strings.  The texts   *)
(* of the model are over the digits, "+", "-", ".", " " and the letter     *)
(* "a", with at most one digit after the point.  The empty text and a      *)
(* field the log form does not render (None) are both the empty tuple: the *)
(* submit handler reads them only through "if distance" / "if vertical".   *)
(***************************************************************************)
Digits == {"0", "1", "2", "3", "4", "5", "6", "7", "8", "9"}

DigitVal(c) ==
    CASE c = "0" -> 0 [] c = "1" -> 1 [] c = "2" -> 2 [] c = "3" -> 3
      [] c = "4" -> 4 [] c = "5" -> 5 [] c = "6" -> 6 [] c = "7" -> 7
      [] c = "8" -> 8 [] c = "9" -> 9

DigitChar(n) ==
    CASE n = 0 -> "0" [] n = 1 -> "1" [] n = 2 -> "2" [] n = 3 -> "3"
      [] n = 4 -> "4" [] n = 5 -> "5" [] n = 6 -> "6" [] n = 7 -> "7"
      [] n = 8 -> "8" [] n = 9 -> "9"

\* str.strip(): drop leading and trailing blanks
RECURSIVE LStrip(_)
LStrip(s) == IF s # << >> /\ Head(s) = " " THEN LStrip(Tail(s)) ELSE s

RECURSIVE RStrip(_)
RStrip(s) ==
    IF s # << >> /\ s[Len(s)] = " " THEN RStrip(SubSeq(s, 1, Len(s) - 1)) ELSE s

Strip(s) == RStrip(LStrip(s))

RECURSIVE DigitsValue(_, _)
DigitsValue(s, acc) ==
    IF s = << >> THEN acc ELSE DigitsValue(Tail(s), acc * 10 + DigitVal(Head(s)))

AllDigits(s) == \A i \in 1..Len(s) : s[i] \in Digits

PointAt(s) == IF \E i \in 1..Len(s) : s[i] = "."
              THEN CHOOSE i \in 1..Len(s) : s[i] = "." /\ \A j \in 1..(i - 1) : s[j] # "."
              ELSE 0

\* The magnitude, in tenths, of the digits ip "." fp; None for a ValueError
FloatMagnitude(ip, fp) ==
    IF AllDigits(ip) /\ AllDigits(fp) /\ Len(ip) + Len(fp) > 0
    THEN Some(DigitsValue(ip, 0) * 10 + (IF fp = << >> THEN 0 ELSE DigitVal(fp[1])))
    ELSE None

\* body split at its first point, at position p (0: no point)
FloatSplit(body, p) ==
    FloatMagnitude(IF p = 0 THEN body ELSE SubSeq(body, 1, p - 1),
                   IF p = 0 THEN << >> ELSE SubSeq(body, p + 1, Len(body)))

FloatUnsigned(body) == FloatSplit(body, PointAt(body))

FloatNegated(m) == IF IsNone(m) THEN None ELSE Some(-Val(m))

FloatSigned(s) ==
    IF s # << >> /\ Head(s) = "-" THEN FloatNegated(FloatUnsigned(Tail(s)))
    ELSE IF s # << >> /\ Head(s) = "+" THEN FloatUnsigned(Tail(s))
    ELSE FloatUnsigned(s)

\* float(text): None for a ValueError, else Some(value in tenths)
PyFloat(text) == FloatSigned(Strip(text))

ParseResult(f) == [val |-> f, err |-> IsNone(f)]

ParseStripped(v, required) ==
    IF v = << >> /\ ~required THEN [val |-> None, err |-> FALSE] ELSE ParseResult(PyFloat(v))

\* parse_float(value, label, required): the value returned (None or Some(tenths))
\* and whether st.error("Invalid input for <label>") was shown
parse_float(value, required) == ParseStripped(Strip(value), required)

(***************************************************************************)
(* Calendar dates are <<year, month, day>>; the sheet holds them as the    *)
(* text strftime("%Y-%m-%d") writes and pandas.to_datetime reads back.     *)
(***************************************************************************)
DateLess(a, b) ==
    \/ a[1] < b[1]
    \/ a[1] = b[1] /\ a[2] < b[2]
    \/ a[1] = b[1] /\ a[2] = b[2] /\ a[3] < b[3]

\* datetime.replace(day=1)
FirstOfMonth(d) == << d[1], d[2], 1 >>

Pad2(n) == << DigitChar(n \div 10), DigitChar(n % 10) >>

Pad4(n) == << DigitChar(n \div 1000), DigitChar((n \div 100) % 10) >> \o Pad2(n % 100)

strftime(d) == Pad4(d[1]) \o << "-" >> \o Pad2(d[2]) \o << "-" >> \o Pad2(d[3])

DaysIn(y, m) ==
    IF m \in {4, 6, 9, 11} THEN 30
    ELSE IF m = 2 THEN (IF y % 4 = 0 /\ (y % 100 # 0 \/ y % 400 = 0) THEN 29 ELSE 28)
    ELSE 31

\* pandas.to_datetime(text, errors="coerce"): None is NaT
to_datetime(s) ==
    IF /\ Len(s) = 10
       /\ s[5] = "-" /\ s[8] = "-"
       /\ \A i \in {1, 2, 3, 4, 6, 7, 9, 10} : s[i] \in Digits
    THEN LET y == DigitsValue(SubSeq(s, 1, 4), 0)
             m == DigitsValue(SubSeq(s, 6, 7), 0)
             d == DigitsValue(SubSeq(s, 9, 10), 0)
         IN  IF m \in 1..12 /\ y >= 1 /\ d >= 1 /\ d <= DaysIn(y, m)
             THEN Some(<< y, m, d >>) ELSE None
    ELSE None

(***************************************************************************)
(* The log form (lines 228-323).                                           *)
(***************************************************************************)
ACTIVITY_ICONS == << "Walk", "Rollerblade", "Stationary Bike",
                     "Basketball (21)", "Spikeball", "Soccer" >>

Activities == { ACTIVITY_ICONS[i] : i \in 1..Len(ACTIVITY_ICONS) }

requires_distance(activity) == activity \in {"Walk", "Rollerblade", "Stationary Bike"}

requires_vertical(activity) == activity \in {"Walk", "Rollerblade", "Stationary Bike"}

needs_intensity(activity) == activity \in {"Basketball (21)", "Spikeball", "Soccer"}

Intensities == {"Low", "Moderate", "High"}

\* The MET tables of the three intensity-gated activities, in tenths
BasketballMET == [Low |-> 45, Moderate |-> 65, High |-> 80]

SpikeballMET == [Low |-> 50, Moderate |-> 65, High |-> 80]

SoccerMET == [Low |-> 70, Moderate |-> 100, High |-> 120]

\* A MET resolution that ignores the activity and the intensity
ResolveMETFlat(activity, intensity) == Some(35)

\* MET resolution: Some(MET in tenths), or None when the table lookup raises KeyError
ResolveMET(activity, intensity) ==
    IF activity = "Rollerblade" THEN Some(90)
    ELSE IF activity = "Stationary Bike" THEN Some(75)
    ELSE IF activity = "Basketball (21)"
         THEN (IF intensity \in DOMAIN BasketballMET THEN Some(BasketballMET[intensity]) ELSE None)
    ELSE IF activity = "Spikeball"
         THEN (IF intensity \in DOMAIN SpikeballMET THEN Some(SpikeballMET[intensity]) ELSE None)
    ELSE IF activity = "Soccer"
         THEN (IF intensity \in DOMAIN SoccerMET THEN Some(SoccerMET[intensity]) ELSE None)
    ELSE Some(35)

\* Python truthiness of a parsed number: None and 0 are false
Truthy(v) == ~IsNone(v) /\ Val(v) # 0

\* w_kg = w * 0.453592, for w in tenths of a pound
MassKg(w) == RMul[Rat[w, << 10 >>], Rat[453592, << 1000, 1000 >>]]

\* cal_flat = MET * w_kg * time_hr, time_hr = t / 60
CalFlat(met, w, t) ==
    RMul[RMul[Rat[met, << 10 >>], MassKg(w)], RDivFactors[Rat[t, << 10 >>], << 60 >>]]

\* cal_climb = (w_kg * vertical_m * 9.81) / 0.25 / 4184 if vert, else 0
CalClimb(w, vert) ==
    IF Truthy(vert)
    THEN LET vertical_m == RMul[Rat[Val(vert), << 10 >>], Rat[3048, << 10000 >>]]
             work == RMul[RMul[MassKg(w), vertical_m], Rat[981, << 100 >>]]
         IN  RDivFactors[RMul[work, Rat[100, << 25 >>]], << 4184 >>]
    ELSE RZero

\* round(cal_flat + cal_climb, 2), in hundredths of a kcal
Calories(met, w, t, vert) == Round2[RAdd[CalFlat(met, w, t), CalClimb(w, vert)]]

\* dist_km = d * 1.60934 if unit == "miles" else d, in millionths of a km
DistKm(d, unit) == IF unit = "miles" THEN d * 160934 ELSE d * 100000

\* A date check that compares the day of the month alone
IsFutureDayOnly(date, now) == date[3] > now[3]

\* date > datetime.today().date()
IsFuture(date, now) == DateLess(now, date)

MsgFuture == "Cannot log an activity in the future."

MsgFix == "Please fix the inputs."

MsgSaved == "Workout saved!"

MsgSaveError == "Workout Save Error"

MsgLoadError == "Workout Load Error"

MsgTypeError == "TypeError"

MsgKeyError == "KeyError"

InvalidMsg(label) ==
    CASE label = "Weight" -> "Invalid input for Weight"
      [] label = "Time" -> "Invalid input for Time"
      [] label = "Distance" -> "Invalid input for Distance"
      [] label = "Vertical Distance" -> "Invalid input for Vertical Distance"

\* parse_float(text, label, required) if text else 0
ParseOrZero(text, required) ==
    IF text # << >> THEN parse_float(text, required) ELSE [val |-> Some(0), err |-> FALSE]

\* The st.error messages of the four parse_float calls
ParseErrors(pw, pt, pd, pv) ==
    (IF pw.err THEN {InvalidMsg("Weight")} ELSE {})
      \cup (IF pt.err THEN {InvalidMsg("Time")} ELSE {})
      \cup (IF pd.err THEN {InvalidMsg("Distance")} ELSE {})
      \cup (IF pv.err THEN {InvalidMsg("Vertical Distance")} ELSE {})

\* The handler from "if None in [w, t]" on, for the parsed w, t, d, vert
\* (pw, pt, pd, pv), the resolved MET and the messages shown so far
FormChecked(f, pw, pt, pd, pv, met, errs) ==
    IF IsNone(pw.val) \/ IsNone(pt.val)
    THEN [result |-> "invalid", msgs |-> errs \cup {MsgFix}]
    ELSE IF IsNone(pd.val) /\ f.unit = "miles"
    THEN [result |-> "raised", msgs |-> errs \cup {MsgTypeError}]
    ELSE IF IsNone(met)
    THEN [result |-> "raised", msgs |-> errs \cup {MsgKeyError}]
    ELSE [result |-> "row", msgs |-> errs,
          MET |-> Val(met),
          vert |-> pv.val,
          weight_lbs |-> Val(pw.val),
          time_min |-> Val(pt.val),
          distance_km |-> IF IsNone(pd.val) THEN None
                          ELSE Some(DistKm(Val(pd.val), f.unit)),
          vertical_feet |-> IF Truthy(pv.val) THEN Val(pv.val) ELSE 0,
          calories |-> Calories(Val(met), Val(pw.val), Val(pt.val), pv.val)]

FormParsed(f, pw, pt, pd, pv, met) ==
    FormChecked(f, pw, pt, pd, pv, met, ParseErrors(pw, pt, pd, pv))

\* The handler's branch after the date check, up to the values of new_row:
\* result is "invalid" (the handler returned after an error), "raised" (an
\* uncaught exception ended the run) or "row" (new_row was built)
FormCore(f, activity) ==
    FormParsed(f, parse_float(f.weight, TRUE), parse_float(f.time, TRUE),
               ParseOrZero(f.distance, TRUE), ParseOrZero(f.vertical, FALSE),
               ResolveMET(activity, f.intensity))

(***************************************************************************)
(* The workouts worksheet: load_data and save_data (lines 70-99).          *)
(***************************************************************************)
\* A load that keeps the rows of every user
LoadAllUsers(rows, user_id) ==
    [i \in 1..Len(rows) |-> [rows[i] EXCEPT !.date = Val(to_datetime(rows[i].date))]]

\* The rows load_data returns when get_all_records succeeds: those of user_id
\* whose date parses, with the date parsed
RECURSIVE load_data(_, _)
load_data(rows, user_id) ==
    IF rows = << >> THEN << >>
    ELSE LET r == Head(rows)
             d == to_datetime(r.date)
             rest == load_data(Tail(rows), user_id)
         IN  IF r.user = user_id /\ ~IsNone(d)
             THEN << [r EXCEPT !.date = Val(d)] >> \o rest
             ELSE rest

\* save_data normalises the date column: to_datetime, then strftime
SaveDate(text) == LET d == to_datetime(text) IN IF IsNone(d) THEN text ELSE strftime(Val(d))

\* The row save_data appends for new_row
StampRow(row, user_id) == [row EXCEPT !.user = user_id, !.date = SaveDate(row.date)]

(***************************************************************************)
(* The settings worksheet as the user selector reads it (lines 153-206).   *)
(* A sheet is the tuple of its records; a sheet with no record (with or    *)
(* without a header row) is the empty tuple.                               *)
(***************************************************************************)
AddNewLabel == "Add New User..."

NewMarker == "__new__"

\* The record load_settings and the new-user branch build for user_id
DefaultSettings(user_id) ==
    [user |-> user_id, name |-> user_id, goal_km |-> 100, height_cm |-> 175,
     birth_year |-> 1991, theme |-> "dark", gender |-> "Male", weekly_goal |-> 5]

user_ids(sheet) == [i \in 1..Len(sheet) |-> sheet[i].user] \o << NewMarker >>

display_names(sheet) == [i \in 1..Len(sheet) |-> sheet[i].name] \o << AddNewLabel >>

\* list.index(v), 1-based: the first position holding v
IndexOf(seq, v) == CHOOSE i \in 1..Len(seq) : seq[i] = v /\ \A j \in 1..(i - 1) : seq[j] # v

\* current_index: the position of the session's user, the first entry if it is not listed
current_index(sheet, cur) ==
    IF \E i \in 1..Len(user_ids(sheet)) : user_ids(sheet)[i] = cur
    THEN IndexOf(user_ids(sheet), cur) ELSE 1

\* user_ids[display_names.index(selection)], where the select box yields the
\* label the user picked in this run (Some(label)) or, with no pick, the
\* entry at current_index
SelectedId(sheet, cur, choice) ==
    LET label == IF IsNone(choice) THEN display_names(sheet)[current_index(sheet, cur)]
                 ELSE Val(choice)
    IN  user_ids(sheet)[IndexOf(display_names(sheet), label)]

(***************************************************************************)
(* State.                                                                  *)
(*   today, workouts, wsHeader, settingsSheet: the clock and the two       *)
(*     worksheets (wsHeader: the workouts sheet has its header row).       *)
(*   page, user, selected_day, ss_df, log_activity_type: st.session_state  *)
(*     of one browser session.                                             *)
(*   form: the values of the log form's widgets, None when not filled.     *)
(*   df, msgs, calc: what the current script run loaded, showed            *)
(*     (st.error / st.success / an exception), and the submit handler's    *)
(*     locals.  rerun: a script run is due (the first run, or st.rerun()). *)
(*   selected_month, presses: st.session_state.selected_month and the net  *)
(*     number of month presses (next minus previous) since the session     *)
(*     started, a history variable.                                        *)
(*   weeks, stats, cmp: what the home page and the progress page computed  *)
(*     in the current run: the calendar grid, the monthly figures, and the *)
(*     result of the two comparators for a pair of figures.                *)
(*   proc, new_ids, lastSaved: the browser sessions of the settings        *)
(*     specification, the number of user ids it has generated, and its     *)
(*     history variable (see below).                                       *)
(***************************************************************************)
VARIABLES today, workouts, wsHeader, settingsSheet,
          page, user, selected_day, ss_df, log_activity_type,
          form, df, msgs, calc, rerun,
          proc, new_ids, lastSaved,
          selected_month, presses, weeks, stats, cmp

storeVars == << workouts, wsHeader >>

sessVars == << page, user, selected_day, ss_df, log_activity_type >>

runVars == << form, df, msgs, calc, rerun >>

settingsVars == << settingsSheet, proc, new_ids, lastSaved >>

viewVars == << selected_month, presses, weeks, stats, cmp >>

vars == << today, storeVars, sessVars, runVars, settingsVars, viewVars >>

\* The calendar days of the model: consecutive, across a month boundary
DayList == << << 2024, 1, 30 >>, << 2024, 1, 31 >>, << 2024, 2, 1 >> >>

Days == { DayList[i] : i \in 1..Len(DayList) }

\* Most rows the workouts sheet holds
MaxRows == 2

Txt200 == << "2", "0", "0" >>

Txt60 == << "6", "0" >>

Txt3 == << "3" >>

\* A valid Walk form: 200 lb, 60 min, 3 miles, no climb
BaseForm(date) ==
    [date |-> date, weight |-> Txt200, time |-> Txt60, distance |-> Txt3,
     unit |-> "miles", vertical |-> << >>, intensity |-> "None"]

\* The widgets the form renders for an activity: no distance and vertical
\* fields (None, unit "km") unless the activity has them, no intensity
\* (None) unless it is intensity-gated
FormFor(activity, f, intensity) ==
    [f EXCEPT !.distance = IF requires_distance(activity) THEN f.distance ELSE << >>,
              !.unit = IF requires_distance(activity) THEN f.unit ELSE "km",
              !.vertical = IF requires_vertical(activity) THEN f.vertical ELSE << >>,
              !.intensity = IF needs_intensity(activity) THEN intensity ELSE "None"]

\* The forms submitted in the application flow
FlowForms(activity) ==
    { FormFor(activity, BaseForm(d), "High") : d \in Days }

TxtEmpty == << >>

TxtBlank == << " " >>

TxtAbc == << "a" >>

Txt0 == << "0" >>

TxtMinus5 == << "-", "5" >>

Txt180p5 == << " ", "1", "8", "0", ".", "5", " " >>

Txt30 == << "3", "0" >>

Txt5 == << "5" >>

Txt100 == << "1", "0", "0" >>

TxtMinus100 == << "-", "1", "0", "0" >>

\* The forms of the log-form specification, all dated d: the base form with
\* one field changed at a time, for every activity and intensity
WalkForms(d) ==
    { [BaseForm(d) EXCEPT !.weight = w] : w \in {Txt200, TxtEmpty, TxtAbc, Txt0, TxtMinus5, Txt180p5} }
      \cup { [BaseForm(d) EXCEPT !.time = t] : t \in {TxtEmpty, TxtAbc, Txt0, TxtMinus5, Txt30} }
      \cup { [BaseForm(d) EXCEPT !.distance = x, !.unit = u] :
               x \in {TxtEmpty, TxtAbc, Txt5}, u \in {"miles", "km"} }
      \cup { [BaseForm(d) EXCEPT !.vertical = v] : v \in {TxtBlank, TxtAbc, Txt100, TxtMinus100, Txt0} }

LogForms(activity, d) ==
    IF activity = "Walk" THEN WalkForms(d)
    ELSE IF requires_distance(activity)
    THEN { [BaseForm(d) EXCEPT !.vertical = v] : v \in {TxtEmpty, Txt100} }
    ELSE { FormFor(activity, [BaseForm(d) EXCEPT !.time = t], i) :
             t \in {Txt60, Txt0}, i \in Intensities }

NoDate(f) == [f EXCEPT !.date = DayList[1]]

\* FormCore of every form of the model, evaluated once
CoreKeys ==
    UNION { { << a, f >> : f \in LogForms(a, DayList[1]) \cup { NoDate(g) : g \in FlowForms(a) } } :
            a \in Activities }

CoreTable == [k \in CoreKeys |-> FormCore(k[2], k[1])]

\* The body of "if submitted:" up to the row to save: result "future" when
\* the date check rejects the form, else FormCore's, the row dated and stamped
RowOf(c, f, activity, user_id) ==
    IF c.result # "row" THEN c
    ELSE [result |-> "row", msgs |-> c.msgs, MET |-> c.MET, vert |-> c.vert,
          row |-> [date |-> strftime(f.date),
                   weight_lbs |-> c.weight_lbs,
                   time_min |-> c.time_min,
                   distance_km |-> c.distance_km,
                   vertical_feet |-> c.vertical_feet,
                   calories |-> c.calories,
                   activity |-> activity,
                   user |-> user_id]]

LogCompute(f, activity, now, user_id) ==
    IF IsFuture(f.date, now)
    THEN [result |-> "future", msgs |-> {MsgFuture}]
    ELSE RowOf(CoreTable[<< activity, NoDate(f) >>], f, activity, user_id)

\* df = load_data(user) if st.session_state.df is None else st.session_state.df;
\* ok: get_all_records succeeded (load_data returns the empty frame otherwise)
\* A frame kept from the previous run instead of read from the sheet
FrameStale(cache, rows, user_id, ok) == df

\* df = load_data(user) if st.session_state.df is None else st.session_state.df;
\* ok: get_all_records did not raise
Frame(cache, rows, user_id, ok) ==
    IF IsNone(cache) THEN (IF ok THEN load_data(rows, user_id) ELSE << >>)
    ELSE Val(cache)

LoadMsgs(cache, ok) == IF IsNone(cache) /\ ~ok THEN {MsgLoadError} ELSE {}

\* The top of the script: user selection, then the loads
RunTop(choice, ok) ==
    /\ user' = SelectedId(settingsSheet, user, choice)
    /\ ss_df' = IF user' # user THEN None ELSE ss_df
    /\ df' = Frame(ss_df', workouts, user', ok)

\* The first run of a session, and the run st.rerun() starts
Rerun ==
    /\ rerun
    /\ \E ok \in BOOLEAN :
         /\ RunTop(None, ok)
         /\ msgs' = LoadMsgs(ss_df', ok)
    /\ rerun' = FALSE
    /\ form' = None
    /\ calc' = None
    /\ UNCHANGED << today, storeVars, page, selected_day, log_activity_type, settingsVars, viewVars >>

\* The user picks another entry of the "Select User" box
SelectUser(label) ==
    /\ ~rerun
    /\ label # AddNewLabel
    /\ \E ok \in BOOLEAN :
         /\ RunTop(Some(label), ok)
         /\ msgs' = LoadMsgs(ss_df', ok)
    /\ user' # user
    /\ form' = None
    /\ calc' = None
    /\ UNCHANGED << today, storeVars, page, selected_day, log_activity_type, rerun, settingsVars, viewVars >>

\* A menu button of the home page, or the Home button of another page
Navigate(to) ==
    /\ ~rerun
    /\ IF page = "home" THEN to \in {"log", "progress", "settings"} ELSE to = "home"
    /\ \E ok \in BOOLEAN :
         /\ RunTop(None, ok)
         /\ msgs' = LoadMsgs(ss_df', ok)
    /\ page' = to
    /\ rerun' = TRUE
    /\ form' = None
    /\ calc' = None
    /\ UNCHANGED << today, storeVars, selected_day, log_activity_type, settingsVars, viewVars >>

\* The "Activity Type" box of the log page
SelectActivity(a) ==
    /\ ~rerun
    /\ page = "log"
    /\ a # log_activity_type
    /\ \E ok \in BOOLEAN :
         /\ RunTop(None, ok)
         /\ msgs' = LoadMsgs(ss_df', ok)
    /\ log_activity_type' = a
    /\ form' = None
    /\ calc' = None
    /\ UNCHANGED << today, storeVars, page, selected_day, rerun, settingsVars, viewVars >>

\* A save that rewrites the sheet with the new row alone
SaveRowsReplace(rows, row, fail) == IF fail = "none" THEN << row >> ELSE rows

\* save_data: the sheet after the call.  fail names the remote call that
\* raised: "open" (worksheet / get_all_values, or the header's append_row),
\* "row" (the row's append_row), "none"
SaveRows(rows, row, fail) == IF fail = "none" THEN Append(rows, row) ELSE rows

SaveHeader(header, fail) == IF fail = "open" THEN header ELSE TRUE

\* A submit handler that jumps to the home page whatever the outcome
SubmitLeavesAlways(f, c, ok, fail) ==
    /\ workouts' = IF c.result = "row" THEN Append(workouts, StampRow(c.row, user')) ELSE workouts
    /\ wsHeader' = (c.result = "row" \/ wsHeader)
    /\ msgs' = LoadMsgs(ss_df', ok) \cup c.msgs \cup (IF c.result = "row" THEN {MsgSaved} ELSE {})
    /\ calc' = None
    /\ selected_day' = Some(f.date)
    /\ page' = "home"
    /\ rerun' = TRUE

\* The end of the submit handler for the outcome c of LogCompute: save_data,
\* st.success, the jump to the home page and st.rerun() when new_row was built
SubmitOutcome(f, c, ok, fail) ==
    IF c.result = "row"
    THEN /\ workouts' = SaveRows(workouts, StampRow(c.row, user'), fail)
         /\ wsHeader' = SaveHeader(wsHeader, fail)
         /\ msgs' = LoadMsgs(ss_df', ok) \cup c.msgs
                      \cup (IF fail = "none" THEN {} ELSE {MsgSaveError})
                      \cup {MsgSaved}
         /\ calc' = Some([MET |-> c.MET, vert |-> c.vert])
         /\ selected_day' = Some(f.date)
         /\ page' = "home"
         /\ rerun' = TRUE
    ELSE /\ msgs' = LoadMsgs(ss_df', ok) \cup c.msgs
         /\ calc' = None
         /\ UNCHANGED << storeVars, selected_day, page, rerun >>

\* "Save Activity": the run that handles the submitted form f
LogSubmit(f) ==
    /\ ~rerun
    /\ page = "log"
    /\ Len(workouts) < MaxRows
    /\ form' = Some(f)
    /\ \E ok \in BOOLEAN, fail \in {"none", "open", "row"} :
         /\ RunTop(None, ok)
         /\ SubmitOutcome(f, LogCompute(f, log_activity_type, today, user'), ok, fail)
    /\ UNCHANGED << today, log_activity_type, settingsVars, viewVars >>

\* The day changes
Midnight ==
    /\ \E i \in 1..(Len(DayList) - 2) : today = DayList[i] /\ today' = DayList[i + 1]
    /\ UNCHANGED << storeVars, sessVars, runVars, settingsVars, viewVars >>

SubmitFlow == \E f \in FlowForms(log_activity_type) : LogSubmit(f)

PickUser == \E i \in 1..Len(settingsSheet) : SelectUser(settingsSheet[i].name)

PressButton == \E to \in {"home", "log", "progress", "settings"} : Navigate(to)

\* The activities picked in the application flow
FlowActivities == {"Walk", "Soccer"}

PickActivity == \E a \in FlowActivities : SelectActivity(a)

TwoUsers == << DefaultSettings("Default"), DefaultSettings("user_1") >>

Init ==
    /\ today = DayList[1]
    /\ workouts = << >>
    /\ wsHeader = FALSE
    /\ settingsSheet = TwoUsers
    /\ page = "home"
    /\ user = "Default"
    /\ selected_day = None
    /\ ss_df = None
    /\ log_activity_type = "Walk"
    /\ form = None
    /\ df = << >>
    /\ msgs = {}
    /\ calc = None
    /\ rerun = TRUE
    /\ proc = << >>
    /\ new_ids = 0
    /\ selected_month = FirstOfMonth(today)
    /\ presses = 0
    /\ weeks = << >>
    /\ stats = None
    /\ cmp = None
    /\ lastSaved = << >>

Next ==
    \/ Rerun
    \/ PickUser
    \/ PressButton
    \/ PickActivity
    \/ SubmitFlow
    \/ Midnight

Spec == Init /\ [][Next]_vars

(***************************************************************************)
(* The log-form specification: one session on the log page with the form   *)
(* filled in, over every form of LogForms, submitted once.                 *)
(***************************************************************************)
\* A row logged earlier by the other user
PriorRow == StampRow(LogCompute(BaseForm(DayList[1]), "Walk", DayList[1], "user_1").row, "user_1")

SubmitFilled == form # None /\ LogSubmit(Val(form))

InitLogForm ==
    /\ today \in { DayList[i] : i \in 1..(Len(DayList) - 1) }
    /\ workouts \in { << >>, << PriorRow >> }
    /\ wsHeader = (workouts # << >>)
    /\ settingsSheet = TwoUsers
    /\ page = "log"
    /\ user \in {"Default", "user_1"}
    /\ selected_day = None
    /\ ss_df = None
    /\ log_activity_type \in Activities
    /\ form \in { Some(f) : f \in UNION { LogForms(log_activity_type, d) : d \in Days } }
    /\ df = load_data(workouts, user)
    /\ msgs = {}
    /\ calc = None
    /\ rerun = FALSE
    /\ proc = << >>
    /\ new_ids = 0
    /\ selected_month = FirstOfMonth(today)
    /\ presses = 0
    /\ weeks = << >>
    /\ stats = None
    /\ cmp = None
    /\ lastSaved = << >>

NextLogForm ==
    \/ SubmitFilled
    \/ Rerun
    \/ Midnight

SpecLogForm == InitLogForm /\ [][NextLogForm]_vars

(***************************************************************************)
(* The settings sheet under concurrent sessions (lines 101-141, 172-206,   *)
(* 481-505).  Each browser session runs the script in a thread of its own, *)
(* so the remote calls of two sessions interleave: a step is one remote    *)
(* call of one session together with the local code that follows it up to  *)
(* the next remote call.  proc[s] is the position of session s:            *)
(*   pc: "start" (no run yet), "idle" (a run ended), "rerun" (st.rerun()    *)
(*     was called), "ls_read" (load_settings is about to read), "ss_read", *)
(*     "ss_clear", "ss_update" (save_settings is about to read, clear,     *)
(*     update);                                                            *)
(*   user: st.session_state.user;  event: "save" when this run handles the *)
(*     "Save Settings" button;  ctx: the caller of the save_settings in    *)
(*     progress;  target, settings: its arguments;  combined: its local.   *)
(* lastSaved[u] is the record of the last save_settings call for u that    *)
(* returned without an exception, or the record the sheet started with.    *)
(***************************************************************************)
Sessions == {1, 2}

MaxNewUsers == 1

GoalInput == 150

UserPool == << "Default", "user_1", "user_2", "user_3" >>

\* The id the n-th new-user branch generates
NewId(n) == UserPool[n + 1]

Rest(p) == [p EXCEPT !.event = "none", !.ctx = "none", !.target = "", !.settings = None,
                     !.combined = << >>]

\* get_all_records as the callers see it: no record when the call raised
Records(sheet, ok) == IF ok THEN sheet ELSE << >>

\* The position of the first record of user_id, 0 when there is none
FindRow(sheet, user_id) ==
    IF \E i \in 1..Len(sheet) : sheet[i].user = user_id
    THEN CHOOSE i \in 1..Len(sheet) :
           sheet[i].user = user_id /\ \A j \in 1..(i - 1) : sheet[j].user # user_id
    ELSE 0

KeepOthers(r, user_id) == r.user # user_id

\* existing[existing["user"] != user_id]
OtherRows(sheet, user_id) == SelectSeq(sheet, LAMBDA r : KeepOthers(r, user_id))

\* new_settings of the settings page: the widgets show the loaded record, the
\* user has typed GoalInput as the monthly goal
NewSettings(loaded, user_id) == [loaded EXCEPT !.user = user_id, !.goal_km = GoalInput]

\* The script after load_settings returned loaded, up to its next remote call
AfterLoad(p, loaded) ==
    IF p.event = "save"
    THEN [Rest(p) EXCEPT !.pc = "ss_read", !.ctx = "page", !.target = p.user,
                         !.settings = Some(NewSettings(loaded, p.user))]
    ELSE [Rest(p) EXCEPT !.pc = "idle"]

\* The script after save_settings returned, up to its next remote call
SaveReturn(p) ==
    IF p.ctx = "newuser" THEN [Rest(p) EXCEPT !.pc = "rerun", !.user = p.target]
    ELSE IF p.ctx = "page" THEN [Rest(p) EXCEPT !.pc = "rerun"]
    ELSE AfterLoad(p, Val(p.settings))

\* What the select box can hold at a run: a label the user picked, when the
\* run was triggered by the box
Choices(event, sheet) ==
    IF event = "pick" THEN { Some(display_names(sheet)[i]) : i \in 1..Len(display_names(sheet)) }
    ELSE {None}

\* The user selection for the selected id sel
Selected(s, event, sel) ==
    IF sel = NewMarker
    THEN /\ new_ids < MaxNewUsers
         /\ new_ids' = new_ids + 1
         /\ proc' = [proc EXCEPT ![s] =
                       [Rest(@) EXCEPT !.pc = "ss_read", !.ctx = "newuser",
                                       !.target = NewId(new_ids + 1),
                                       !.settings = Some(DefaultSettings(NewId(new_ids + 1)))]]
    ELSE /\ proc' = [proc EXCEPT ![s] =
                       [Rest(@) EXCEPT !.pc = "ls_read", !.user = sel,
                                       !.event = IF event = "save" THEN "save" ELSE "none"]]
         /\ UNCHANGED new_ids

\* A script run starts: get_all_users_with_names and the user selection
RunUsers(s) ==
    /\ proc[s].pc \in {"start", "idle", "rerun"}
    /\ \E ok \in BOOLEAN, event \in {"none", "pick", "save"} :
         /\ proc[s].pc # "idle" => event = "none"
         /\ \E choice \in Choices(event, Records(settingsSheet, ok)) :
              Selected(s, event, SelectedId(Records(settingsSheet, ok), proc[s].user, choice))
    /\ UNCHANGED << settingsSheet, lastSaved >>

\* The outcome of load_settings' get_all_records: the record found at row i,
\* or the default for a read that raised (i = -1) or found nothing (i = 0)
Loaded(p, sheet, i) ==
    IF i = -1 THEN AfterLoad(p, DefaultSettings(p.user))
    ELSE IF i = 0
    THEN [Rest(p) EXCEPT !.pc = "ss_read", !.ctx = "load", !.target = p.user,
                         !.event = p.event,
                         !.settings = Some(DefaultSettings(p.user))]
    ELSE AfterLoad(p, sheet[i])

\* load_settings reads the sheet
LsRead(s) ==
    /\ proc[s].pc = "ls_read"
    /\ \E ok \in BOOLEAN :
         proc' = [proc EXCEPT ![s] =
                    Loaded(@, settingsSheet, IF ok THEN FindRow(settingsSheet, @.user) ELSE -1)]
    /\ UNCHANGED << settingsSheet, new_ids, lastSaved >>

\* The outcome of save_settings' get_all_records: existing["user"] raises
\* KeyError on the frame of no record, which has no column
ReadForSave(p, sheet, ok) ==
    IF ok /\ sheet # << >>
    THEN [p EXCEPT !.pc = "ss_clear",
                   !.combined = Append(OtherRows(sheet, p.target), Val(p.settings))]
    ELSE SaveReturn(p)

\* save_settings reads the sheet
SsRead(s) ==
    /\ proc[s].pc = "ss_read"
    /\ \E ok \in BOOLEAN : proc' = [proc EXCEPT ![s] = ReadForSave(@, settingsSheet, ok)]
    /\ UNCHANGED << settingsSheet, new_ids, lastSaved >>

\* save_settings: ws.clear()
SsClear(s) ==
    /\ proc[s].pc = "ss_clear"
    /\ \E ok \in BOOLEAN :
         IF ok
         THEN /\ settingsSheet' = << >>
              /\ proc' = [proc EXCEPT ![s].pc = "ss_update"]
         ELSE /\ proc' = [proc EXCEPT ![s] = SaveReturn(@)]
              /\ UNCHANGED settingsSheet
    /\ UNCHANGED << new_ids, lastSaved >>

\* save_settings: ws.update(header and rows of combined)
SsUpdate(s) ==
    /\ proc[s].pc = "ss_update"
    /\ \E ok \in BOOLEAN :
         IF ok
         THEN /\ settingsSheet' = proc[s].combined
              /\ lastSaved' = [lastSaved EXCEPT ![proc[s].target] = proc[s].settings]
         ELSE UNCHANGED << settingsSheet, lastSaved >>
    /\ proc' = [proc EXCEPT ![s] = SaveReturn(@)]
    /\ UNCHANGED new_ids

UserIds == { UserPool[i] : i \in 1..Len(UserPool) }

InitSettings ==
    /\ today = DayList[1]
    /\ workouts = << >>
    /\ wsHeader = FALSE
    /\ settingsSheet \in { << >>, << DefaultSettings("Default") >> }
    /\ page = "home"
    /\ user = "Default"
    /\ selected_day = None
    /\ ss_df = None
    /\ log_activity_type = "Walk"
    /\ form = None
    /\ df = << >>
    /\ msgs = {}
    /\ calc = None
    /\ rerun = TRUE
    /\ proc = [s \in Sessions |->
                 [pc |-> "start", user |-> "Default", event |-> "none", ctx |-> "none",
                  target |-> "", settings |-> None, combined |-> << >>]]
    /\ new_ids = 0
    /\ selected_month = FirstOfMonth(today)
    /\ presses = 0
    /\ weeks = << >>
    /\ stats = None
    /\ cmp = None
    /\ lastSaved = [u \in UserIds |->
                      IF FindRow(settingsSheet, u) = 0 THEN None
                      ELSE Some(settingsSheet[FindRow(settingsSheet, u)])]

appVars == << today, storeVars, sessVars, runVars, viewVars >>

Users == (\E s \in Sessions : RunUsers(s)) /\ UNCHANGED appVars

LoadRead == (\E s \in Sessions : LsRead(s)) /\ UNCHANGED appVars

SaveRead == (\E s \in Sessions : SsRead(s)) /\ UNCHANGED appVars

SaveClear == (\E s \in Sessions : SsClear(s)) /\ UNCHANGED appVars

SaveUpdate == (\E s \in Sessions : SsUpdate(s)) /\ UNCHANGED appVars

NextSettings ==
    \/ Users
    \/ LoadRead
    \/ SaveRead
    \/ SaveClear
    \/ SaveUpdate

SpecSettings == InitSettings /\ [][NextSettings]_vars

(***************************************************************************)
(* The progress page (lines 508-559).  A frame is the tuple of its rows,   *)
(* dates parsed.  Figures keep the units of the sheet's columns: distance  *)
(* in millionths of a km, time and vertical in tenths, calories in         *)
(* hundredths; a quotient is the pair << numerator, denominator >>.        *)
(***************************************************************************)
\* The dtype of the frame's date column: load_data converts it with
\* pd.to_datetime only when get_all_records returned a record; the frame of
\* no record, and the one returned after an exception, is
\* pd.DataFrame(columns=[...]), whose columns hold objects
DateTyped(rows, ok) == ok /\ rows # << >>

\* strftime("%Y-%m")
MonthKey(d) == Pad4(d[1]) \o << "-" >> \o Pad2(d[2])

\* d + relativedelta(months=1)
NextMonthOf(d) ==
    LET y == IF d[2] + 1 > 12 THEN d[1] + 1 ELSE d[1]
        m == IF d[2] + 1 > 12 THEN d[2] + 1 - 12 ELSE d[2] + 1
    IN  << y, m, IF d[3] > DaysIn(y, m) THEN DaysIn(y, m) ELSE d[3] >>

\* A "previous month" that stays in the year
PrevMonthSameYear(d) == << d[1], IF d[2] = 1 THEN 12 ELSE d[2] - 1, d[3] >>

\* d - relativedelta(months=1)
PrevMonthOf(d) ==
    LET y == IF d[2] - 1 < 1 THEN d[1] - 1 ELSE d[1]
        m == IF d[2] - 1 < 1 THEN d[2] - 1 + 12 ELSE d[2] - 1
    IN  << y, m, IF d[3] > DaysIn(y, m) THEN DaysIn(y, m) ELSE d[3] >>

\* df[df["date"].dt.strftime("%Y-%m") == month.strftime("%Y-%m")]
InMonth(frame, month) == SelectSeq(frame, LAMBDA r : MonthKey(r.date) = MonthKey(month))

\* A cell of a numeric column
Cell(r, col) == IF col = "distance_km" THEN Val(r.distance_km) ELSE r[col]

\* frame[col].sum()
RECURSIVE ColumnSum(_, _)
ColumnSum(frame, col) ==
    IF frame = << >> THEN 0 ELSE Cell(Head(frame), col) + ColumnSum(Tail(frame), col)

\* A count of the frame's rows
CountRows(frame) == Len(frame)

\* frame["date"].dt.date.nunique()
nunique(frame) == Cardinality({ frame[i].date : i \in 1..Len(frame) })

\* total_km / (total_min / 60) if total_min else 0, in km/h
AvgSpeed(total_km, total_min) ==
    IF total_min # 0 THEN << total_km * 6, total_min * 10000 >> ELSE << 0, 1 >>

\* A goal ratio that is not capped
GoalRatio(total_km, goal_km) ==
    IF goal_km > 0 THEN << total_km, goal_km * 1000000 >> ELSE << 0, 1 >>

\* min(total_km / goal_km, 1.0) if goal_km > 0 else 0
GoalPercent(total_km, goal_km) ==
    IF goal_km > 0
    THEN (IF total_km < goal_km * 1000000 THEN << total_km, goal_km * 1000000 >> ELSE << 1, 1 >>)
    ELSE << 0, 1 >>

\* The figures of one month's rows
MonthFigures(rows) ==
    [total_km |-> ColumnSum(rows, "distance_km"),
     total_min |-> ColumnSum(rows, "time_min"),
     total_kcal |-> ColumnSum(rows, "calories"),
     vertical_sum |-> ColumnSum(rows, "vertical_feet"),
     workout_days |-> nunique(rows),
     avg_speed |-> AvgSpeed(ColumnSum(rows, "distance_km"), ColumnSum(rows, "time_min"))]

\* The page for the loaded frame: df["date"].dt raises AttributeError on a
\* column of objects, else the figures of the month and of the month before
ProgressPage(frame, typed, month, goal_km) ==
    IF ~typed THEN [result |-> "raised", error |-> "AttributeError"]
    ELSE [result |-> "shown",
          month |-> MonthFigures(InMonth(frame, month)),
          prev |-> MonthFigures(InMonth(frame, PrevMonthOf(month))),
          goal_km |-> goal_km,
          percent |-> GoalPercent(ColumnSum(InMonth(frame, month), "distance_km"), goal_km)]

\* settings = load_settings(user)["goal_km"] for a user the sheet has a
\* record of; sok: its get_all_records did not raise
GoalOf(sheet, user_id, sok) ==
    IF sok THEN sheet[FindRow(sheet, user_id)].goal_km ELSE DefaultSettings(user_id).goal_km

\* A script run on the progress page
RunProgress ==
    /\ rerun
    /\ page = "progress"
    /\ \E ok \in BOOLEAN, sok \in BOOLEAN :
         /\ RunTop(None, ok)
         /\ msgs' = LoadMsgs(ss_df', ok)
         /\ stats' = Some(ProgressPage(df', DateTyped(workouts, ok), selected_month,
                                       GoalOf(settingsSheet, user', sok)))
    /\ rerun' = FALSE
    /\ form' = None
    /\ calc' = None
    /\ UNCHANGED << today, storeVars, page, selected_day, log_activity_type, settingsVars,
                    selected_month, presses, weeks, cmp >>

\* A script run on the home page, up to the calendar
RunHomeTop == page = "home" /\ Rerun

\* The "My Progress" button of the home page
OpenProgress == Navigate("progress")

\* The Home button of the progress page
LeaveProgress == page = "progress" /\ Navigate("home")

Txt50 == << "5", "0" >>

\* The forms behind the sessions of the progress specification: 50 km in
\* 60 minutes, and 100 km in 30 minutes with a climb of 100 feet
ProgressForms(d) ==
    { [BaseForm(d) EXCEPT !.distance = Txt50, !.unit = "km"],
      [BaseForm(d) EXCEPT !.distance = Txt100, !.unit = "km", !.time = Txt30, !.vertical = Txt100] }

\* The row the log page saves for form f of user_id
Logged(f, user_id) == StampRow(RowOf(FormCore(f, "Walk"), f, "Walk", user_id).row, user_id)

\* The sessions a workouts sheet of the progress specification may hold
ProgressRows ==
    { Logged(f, "Default") : f \in UNION { ProgressForms(d) : d \in Days } }
      \cup { Logged(BaseForm(DayList[3]), "user_1") }

\* The monthly goals of the settings sheet
Goals == {-100, 0, 100}

Sheets == UNION { [1..n -> ProgressRows] : n \in 0..MaxRows }

InitProgress ==
    /\ today = DayList[3]
    /\ workouts \in Sheets
    /\ wsHeader = (workouts # << >>)
    /\ \E g \in Goals :
         settingsSheet = << [DefaultSettings("Default") EXCEPT !.goal_km = g],
                            DefaultSettings("user_1") >>
    /\ page = "progress"
    /\ user \in {"Default", "user_1"}
    /\ selected_day = None
    /\ ss_df = None
    /\ log_activity_type = "Walk"
    /\ form = None
    /\ df = << >>
    /\ msgs = {}
    /\ calc = None
    /\ rerun = TRUE
    /\ proc = << >>
    /\ new_ids = 0
    /\ selected_month \in { FirstOfMonth(today), PrevMonthOf(FirstOfMonth(today)) }
    /\ presses = 0
    /\ weeks = << >>
    /\ stats = None
    /\ cmp = None
    /\ lastSaved = << >>

NextProgress ==
    \/ RunProgress
    \/ LeaveProgress
    \/ RunHomeTop
    \/ OpenProgress

SpecProgress == InitProgress /\ [][NextProgress]_vars

(***************************************************************************)
(* The comparators of the progress page (lines 521-539), which no line of  *)
(* the script calls.  Their arguments are figures in halves (1 is 0.5), so *)
(* that a difference is exact; a result is the record of what the returned *)
(* markup shows: kind "none" for the empty string, else the arrow ("flat", *)
(* "up", "down"), delta, and the magnitude as formatted.                   *)
(***************************************************************************)
\* round(n / d) for n >= 0, d > 0, ties to even: the rounding of "%.0f" and "%.1f"
RoundDiv(n, d) ==
    IF 2 * (n % d) < d THEN n \div d
    ELSE IF 2 * (n % d) > d THEN (n \div d) + 1
    ELSE IF (n \div d) % 2 = 0 THEN n \div d
    ELSE (n \div d) + 1

Abs(n) == IF n < 0 THEN -n ELSE n

\* "flat", "up" or "down": the arrow shown for delta
Arrow(delta) == IF delta = 0 THEN "flat" ELSE IF delta > 0 THEN "up" ELSE "down"

\* The markup for delta = n / d (d # 0), the magnitude shown in units of 1 / scale
DeltaMarkup(n, d, scale, unit) ==
    [kind |-> Arrow(IF d > 0 THEN n ELSE -n),
     delta |-> << n, d >>,
     shown |-> IF n = 0 THEN 0 ELSE RoundDiv(Abs(n) * scale, Abs(d)),
     unit |-> unit]

\* A comparator that lacks the test of previous
RawDeltaNoGuard(current, previous, unit) == DeltaMarkup(current - previous, 2, 1, unit)

\* raw_delta(current, previous, unit): the magnitude is f"{abs(delta):.0f}"
raw_delta(current, previous, unit) ==
    IF previous = 0 THEN [kind |-> "none"]
    ELSE DeltaMarkup(current - previous, 2, 1, unit)

\* percent_delta(current, previous): delta = ((current - previous) / previous) * 100,
\* the magnitude is f"{abs(delta):.1f}", in tenths
percent_delta(current, previous) ==
    IF previous = 0 THEN [kind |-> "none"]
    ELSE DeltaMarkup((current - previous) * 100, previous, 10, "%")

\* The figures compared, in halves
CmpInputs == {-3, 0, 1, 2, 3, 5}

CallRawDelta ==
    /\ cmp # None
    /\ Val(cmp).raw = None
    /\ cmp' = Some([Val(cmp) EXCEPT !.raw = Some(raw_delta(Val(cmp).current, Val(cmp).previous, " km"))])
    /\ UNCHANGED << today, storeVars, sessVars, runVars, settingsVars,
                    selected_month, presses, weeks, stats >>

CallPercentDelta ==
    /\ cmp # None
    /\ Val(cmp).pct = None
    /\ cmp' = Some([Val(cmp) EXCEPT !.pct = Some(percent_delta(Val(cmp).current, Val(cmp).previous))])
    /\ UNCHANGED << today, storeVars, sessVars, runVars, settingsVars,
                    selected_month, presses, weeks, stats >>

InitCompare ==
    /\ today = DayList[3]
    /\ workouts = << PriorRow >>
    /\ wsHeader = TRUE
    /\ settingsSheet = TwoUsers
    /\ page = "progress"
    /\ user = "user_1"
    /\ selected_day = None
    /\ ss_df = None
    /\ log_activity_type = "Walk"
    /\ form = None
    /\ df = load_data(workouts, user)
    /\ msgs = {}
    /\ calc = None
    /\ rerun = FALSE
    /\ proc = << >>
    /\ new_ids = 0
    /\ selected_month = FirstOfMonth(today)
    /\ presses = 0
    /\ weeks = << >>
    /\ stats = Some(ProgressPage(df, TRUE, selected_month, 100))
    /\ cmp \in { Some([current |-> c, previous |-> p, raw |-> None, pct |-> None]) :
                   c \in CmpInputs, p \in CmpInputs }
    /\ lastSaved = << >>

NextCompare ==
    \/ CallRawDelta
    \/ CallPercentDelta

SpecCompare == InitCompare /\ [][NextCompare]_vars

(***************************************************************************)
(* The calendar of the home page (lines 356-381, 429-436).                 *)
(***************************************************************************)
\* The days of the years before y: datetime's _days_before_year
DaysBeforeYear(y) == (y - 1) * 365 + (y - 1) \div 4 - (y - 1) \div 100 + (y - 1) \div 400

\* The days of year y before month m
RECURSIVE DaysBeforeMonth(_, _)
DaysBeforeMonth(y, m) == IF m = 1 THEN 0 ELSE DaysBeforeMonth(y, m - 1) + DaysIn(y, m - 1)

\* date.toordinal()
ToOrdinal(d) == DaysBeforeYear(d[1]) + DaysBeforeMonth(d[1], d[2]) + d[3]

\* A day of the week counted from Sunday
WeekdayFromSunday(d) == ToOrdinal(d) % 7

\* date.weekday(): Monday is 0
Weekday(d) == (ToOrdinal(d) + 6) % 7

\* The dates of month m of year y
MonthDays(y, m) == { << y, m, k >> : k \in 1..DaysIn(y, m) }

\* The dates of the month of d, of the month before and of the month after
Around(d) ==
    MonthDays(d[1], d[2])
      \cup MonthDays(PrevMonthOf(<< d[1], d[2], 1 >>)[1], PrevMonthOf(<< d[1], d[2], 1 >>)[2])
      \cup MonthDays(NextMonthOf(<< d[1], d[2], 1 >>)[1], NextMonthOf(<< d[1], d[2], 1 >>)[2])

\* date.fromordinal(n), for a date within a month of the month of near
fromordinal(n, near) == CHOOSE c \in Around(near) : ToOrdinal(c) = n

\* d + timedelta(days=n), for at most 28 days
AddDays(d, n) == fromordinal(ToOrdinal(d) + n, d)

\* all_dates, for grid_start, the number of days of the grid, and a day of
\* the month shown
AllDates(grid_start, n, near) ==
    [i \in 1..n |-> fromordinal(ToOrdinal(grid_start) + (i - 1), near)]

\* [all_dates[i:i + 7] for i in range(0, len(all_dates), 7)]
Chunks(all_dates) ==
    [w \in 1..((Len(all_dates) + 6) \div 7) |->
       SubSeq(all_dates, 7 * (w - 1) + 1,
              IF 7 * w < Len(all_dates) THEN 7 * w ELSE Len(all_dates))]

\* weeks, for first_day and last_day of the month
GridOf(first_day, last_day) ==
    Chunks(AllDates(AddDays(first_day, -Weekday(first_day)),
                    ToOrdinal(last_day) + (6 - Weekday(last_day))
                      - (ToOrdinal(first_day) - Weekday(first_day)) + 1,
                    first_day))

\* The weeks of the calendar for current_month
CalendarWeeks(month) ==
    GridOf(<< month[1], month[2], 1 >>, << month[1], month[2], DaysIn(month[1], month[2]) >>)

\* Most presses of one month button beyond those of the other
MaxPresses == 3

\* A script run on the home page
RunHome ==
    /\ rerun
    /\ page = "home"
    /\ \E ok \in BOOLEAN :
         /\ RunTop(None, ok)
         /\ msgs' = LoadMsgs(ss_df', ok)
    /\ weeks' = CalendarWeeks(selected_month)
    /\ rerun' = FALSE
    /\ form' = None
    /\ calc' = None
    /\ UNCHANGED << today, storeVars, page, selected_day, log_activity_type, settingsVars,
                    selected_month, presses, stats, cmp >>

\* A press of a month button: the run it starts ends at st.rerun()
MonthPress(month, net) ==
    /\ ~rerun
    /\ page = "home"
    /\ \E ok \in BOOLEAN :
         /\ RunTop(None, ok)
         /\ msgs' = LoadMsgs(ss_df', ok)
    /\ selected_month' = month
    /\ presses' = net
    /\ selected_day' = None
    /\ rerun' = TRUE
    /\ form' = None
    /\ calc' = None
    /\ UNCHANGED << today, storeVars, page, log_activity_type, settingsVars, weeks, stats, cmp >>

\* The previous-month button
PrevMonth == presses > -MaxPresses /\ MonthPress(PrevMonthOf(selected_month), presses - 1)

\* The next-month button
NextMonth == presses < MaxPresses /\ MonthPress(NextMonthOf(selected_month), presses + 1)

\* has_workout: the frame has a row dated day
HasWorkout(frame, day) == \E i \in 1..Len(frame) : frame[i].date = day

\* A press of the button of a day of the grid
ClickDay(day) ==
    /\ ~rerun
    /\ page = "home"
    /\ \E ok \in BOOLEAN :
         /\ RunTop(None, ok)
         /\ msgs' = LoadMsgs(ss_df', ok)
    /\ IF HasWorkout(df', day)
       THEN selected_day' = Some(day) /\ page' = page
       ELSE selected_day' = selected_day /\ page' = "log"
    /\ rerun' = TRUE
    /\ form' = None
    /\ calc' = None
    /\ UNCHANGED << today, storeVars, log_activity_type, settingsVars, viewVars >>

ClickGrid == \E w \in 1..Len(weeks) : \E i \in 1..Len(weeks[w]) : ClickDay(weeks[w][i])

\* The Home button of the log page
LeaveLog == page = "log" /\ Navigate("home")

\* A script run on the log page
RunLog == page = "log" /\ Rerun

\* The dates a session of the home specification starts on
HomeDays == { << 2021, 2, 15 >>, << 2023, 12, 31 >>, << 2024, 1, 30 >> }

InitHome ==
    /\ today \in HomeDays
    /\ workouts = << Logged(BaseForm(DayList[1]), "Default") >>
    /\ wsHeader = TRUE
    /\ settingsSheet = TwoUsers
    /\ page = "home"
    /\ user = "Default"
    /\ selected_day = None
    /\ ss_df = None
    /\ log_activity_type = "Walk"
    /\ form = None
    /\ df = << >>
    /\ msgs = {}
    /\ calc = None
    /\ rerun = TRUE
    /\ proc = << >>
    /\ new_ids = 0
    /\ selected_month = FirstOfMonth(today)
    /\ presses = 0
    /\ weeks = << >>
    /\ stats = None
    /\ cmp = None
    /\ lastSaved = << >>

NextHome ==
    \/ RunHome
    \/ PrevMonth
    \/ NextMonth
    \/ ClickGrid
    \/ LeaveLog
    \/ RunLog

SpecHome == InitHome /\ [][NextHome]_vars

(***************************************************************************)
(* The claims.                                                             *)
(***************************************************************************)
\* The messages the submit handler ends with: one of them is shown by every
\* handled submission
SubmitMsgs == {MsgFuture, MsgFix, MsgTypeError, MsgKeyError, MsgSaved}

Submitted == form # None /\ msgs \cap SubmitMsgs # {}

Last(seq) == seq[Len(seq)]

\* C1: no row of the workouts sheet is dated after today, and a submitted
\* form dated after today is answered with the "future" error and not saved.
C1_NoFutureSession ==
    /\ \A i \in 1..Len(workouts) :
         LET d == to_datetime(workouts[i].date)
         IN  ~IsNone(d) /\ ~DateLess(today, Val(d))
    /\ (Submitted /\ DateLess(today, Val(form).date))
         => (MsgFuture \in msgs /\ MsgSaved \notin msgs)

\* C1 witness: a future-dated form was submitted and rejected while the
\* sheet already held a row.
C1_Witness ==
    /\ Submitted
    /\ DateLess(today, Val(form).date)
    /\ MsgFuture \in msgs
    /\ workouts # << >>

\* A numeric field of form f that is required and empty, or does not parse
BadNumeric(f) ==
    \/ IsNone(PyFloat(f.weight))
    \/ IsNone(PyFloat(f.time))
    \/ Strip(f.distance) # << >> /\ IsNone(PyFloat(f.distance))
    \/ Strip(f.vertical) # << >> /\ IsNone(PyFloat(f.vertical))

\* C2 (as claimed): a step that handles a form with a missing or unparsable
\* numeric field leaves the workouts sheet as it was.
C2_BadNumericRejected ==
    [][(form' # None /\ BadNumeric(Val(form'))) => workouts' = workouts]_vars

\* C3 (as claimed): every row of the workouts sheet has time_min > 0 and
\* weight_lbs > 0.
C3_PositiveDuration ==
    \A i \in 1..Len(workouts) : workouts[i].time_min > 0 /\ workouts[i].weight_lbs > 0

\* The number of records the settings sheet holds for user_id
RecordCount(user_id) == Cardinality({ i \in 1..Len(settingsSheet) : settingsSheet[i].user = user_id })

\* No save_settings call is between its clear and its update
NoRewriteInProgress == \A s \in Sessions : proc[s].pc # "ss_update"

\* C4 (as claimed): between two script runs of a session, and while no
\* rewrite of the sheet is in progress, the settings sheet holds exactly one
\* record for the user the session refers to.
C4_OneRecordPerUser ==
    \A s \in Sessions :
      (proc[s].pc \in {"idle", "rerun"} /\ NoRewriteInProgress)
        => RecordCount(proc[s].user) = 1

\* C5 (as claimed): while no rewrite of the sheet is in progress, every
\* record that was saved is in the settings sheet with its last saved values.
C5_RecordsSurvive ==
    NoRewriteInProgress
      => \A u \in UserIds :
           lastSaved[u] # None
             => \E i \in 1..Len(settingsSheet) : settingsSheet[i] = Val(lastSaved[u])

\* C6 (as claimed): when the load_settings call of a user with no record
\* returns, the settings sheet holds a record of that user.
C6_DefaultPersisted ==
    [][\A s \in Sessions :
         (proc[s].ctx = "load" /\ proc'[s].ctx # "load")
           => RecordCount(proc[s].target)' = 1]_vars

\* The frame row load_data makes of a sheet row
FrameRow(r) == [r EXCEPT !.date = Val(to_datetime(r.date))]

\* C7: the run that follows a successful append either reports a failed read
\* of the sheet or loads a frame that holds the appended row.
C7_ReadAfterWrite ==
    [][(rerun /\ MsgSaved \in msgs /\ MsgSaveError \notin msgs /\ ~rerun')
         => \/ MsgLoadError \in msgs'
            \/ \E i \in 1..Len(df') : df'[i] = FrameRow(Last(workouts))]_vars

\* C7 witness: after the rerun of a log action the frame holds the appended
\* row, the last of a sheet whose first row is another user's.
C7_Witness ==
    /\ ~rerun
    /\ page = "home"
    /\ Len(workouts) = 2
    /\ workouts[1].user # user
    /\ selected_day = Some(Val(to_datetime(Last(workouts).date)))
    /\ df = << FrameRow(Last(workouts)) >>

\* C8 (as claimed): "Workout saved!" is shown only when the row was appended.
C8_SavedOnlyWhenPersisted ==
    MsgSaved \in msgs
      => /\ MsgSaveError \notin msgs
         /\ workouts # << >>
         /\ form # None
         /\ Last(workouts).date = strftime(Val(form).date)
         /\ Last(workouts).user = user

\* C11: a step leaves the workouts sheet as it was or appends one row after
\* the rows it held, and the log action whose save succeeded appends exactly
\* one row.
C11_AppendOnly ==
    [][/\ \/ workouts' = workouts
          \/ /\ Len(workouts') = Len(workouts) + 1
             /\ SubSeq(workouts', 1, Len(workouts)) = workouts
       /\ (~rerun /\ rerun' /\ MsgSaved \in msgs' /\ MsgSaveError \notin msgs')
            => Len(workouts') = Len(workouts) + 1]_vars

\* C11 witness: a second row, of another user, was just appended after the
\* first.
C11_Witness ==
    /\ rerun
    /\ MsgSaved \in msgs
    /\ MsgSaveError \notin msgs
    /\ Len(workouts) = 2
    /\ workouts[1].user # workouts[2].user

IsOwnRow(r) == r.user = user

\* The rows of the workouts sheet stamped with the selected user
OwnRows == SelectSeq(workouts, IsOwnRow)

\* C12: the frame a run loaded for the selected user holds exactly the rows
\* stamped with that user, and a saved row is stamped with the user selected
\* when it was logged.
C12_PerUserSessions ==
    /\ (~rerun /\ MsgLoadError \notin msgs)
         => /\ Len(df) = Len(OwnRows)
            /\ \A i \in 1..Len(df) : df[i] = FrameRow(OwnRows[i])
    /\ (MsgSaved \in msgs /\ MsgSaveError \notin msgs) => Last(workouts).user = user

\* C12 witness: after user_1 logged a session, Default is selected again and
\* its frame holds Default's row alone.
C12_Witness ==
    /\ ~rerun
    /\ user = "Default"
    /\ Len(workouts) = 2
    /\ workouts[1].user = "Default"
    /\ workouts[2].user = "user_1"
    /\ df = << FrameRow(workouts[1]) >>
    /\ MsgLoadError \notin msgs

Pages == {"home", "log", "settings", "progress"}

\* The date check or the parse of weight or time rejects form f on day now
Rejected(f, now) ==
    DateLess(now, f.date) \/ IsNone(PyFloat(f.weight)) \/ IsNone(PyFloat(f.time))

\* C17: a step that handles a submitted form keeps the page, the selected day
\* and the workouts sheet when the form is rejected, and goes to the home page
\* with the form's date selected and a rerun due when it says it saved; the
\* page is always one of the four pages.
C17_LeavesLogWhenAccepted ==
    [][/\ page' \in Pages
       /\ (form' # None /\ page = "log" /\ Rejected(Val(form'), today))
            => (page' = "log" /\ selected_day' = selected_day /\ workouts' = workouts)
       /\ (form' # None /\ page = "log" /\ MsgSaved \in msgs')
            => (page' = "home" /\ selected_day' = Some(Val(form').date) /\ rerun'
                  /\ ~Rejected(Val(form'), today))]_vars

\* C17 witness: a form with an unparsable time was answered on the log page.
C17_Witness ==
    /\ form # None
    /\ IsNone(PyFloat(Val(form).time))
    /\ MsgFix \in msgs
    /\ page = "log"
    /\ selected_day = None

\* The MET of each activity and intensity as the claim lists them, in tenths
ClaimedMET ==
    (<< "Walk", "None" >> :> 35) @@ (<< "Rollerblade", "None" >> :> 90)
      @@ (<< "Stationary Bike", "None" >> :> 75)
      @@ (<< "Basketball (21)", "Low" >> :> 45) @@ (<< "Basketball (21)", "Moderate" >> :> 65)
      @@ (<< "Basketball (21)", "High" >> :> 80)
      @@ (<< "Spikeball", "Low" >> :> 50) @@ (<< "Spikeball", "Moderate" >> :> 65)
      @@ (<< "Spikeball", "High" >> :> 80)
      @@ (<< "Soccer", "Low" >> :> 70) @@ (<< "Soccer", "Moderate" >> :> 100)
      @@ (<< "Soccer", "High" >> :> 120)

\* C9: a run that saves a session resolved its MET from the activity (and,
\* for the gated activities, the intensity) of the form, as the claim lists it.
C9_METResolved ==
    MsgSaved \in msgs
      => /\ calc # None
         /\ form # None
         /\ << log_activity_type, Val(form).intensity >> \in DOMAIN ClaimedMET
         /\ Val(calc).MET = ClaimedMET[<< log_activity_type, Val(form).intensity >>]

\* C9 witness: a Soccer session of High intensity was saved with MET 12.0.
C9_Witness ==
    /\ MsgSaved \in msgs
    /\ MsgSaveError \notin msgs
    /\ log_activity_type = "Soccer"
    /\ Val(form).intensity = "High"
    /\ Val(calc).MET = 120
    /\ Last(workouts).activity = "Soccer"

\* The calories the claim states for a row: the climb term only for a
\* vertical gain > 0
ClaimedCalories(met, r) ==
    LET flat == RMul[RMul[Rat[met, << 10 >>], MassKg(r.weight_lbs)],
                     RDivFactors[Rat[r.time_min, << 10 >>], << 60 >>]]
        climb == IF r.vertical_feet > 0
                 THEN RDivFactors[
                        RMul[RMul[RMul[MassKg(r.weight_lbs),
                                       RMul[Rat[r.vertical_feet, << 10 >>], Rat[3048, << 10000 >>]]],
                                  Rat[981, << 100 >>]],
                             Rat[100, << 25 >>]],
                        << 4184 >>]
                 ELSE RZero
    IN  Round2[RAdd[flat, climb]]

\* C10 (as claimed): the row a run appended holds the calories of the claim's
\* formula, 317.51 kcal for 200 lb, 60 min of Walk and no climb.
C10_CaloriesFormula ==
    /\ ClaimedCalories(35, [weight_lbs |-> 2000, time_min |-> 600, vertical_feet |-> 0]) = 31751
    /\ (MsgSaved \in msgs /\ MsgSaveError \notin msgs)
         => Last(workouts).calories
              = ClaimedCalories(ClaimedMET[<< log_activity_type, Val(form).intensity >>],
                                Last(workouts))

\* The positions of the sheet's sessions of the selected user dated in the
\* month of m
MonthSessions(m) ==
    { i \in 1..Len(workouts) :
        workouts[i].user = user /\ SubSeq(workouts[i].date, 1, 7) = MonthKey(m) }

\* The progress page has shown its figures in the current run
Shown == ~rerun /\ page = "progress" /\ stats # None /\ Val(stats).result = "shown"

\* C13: the active days the progress page shows for the selected month, and
\* for the month before it, are the number of distinct dates among that
\* month's sessions of the user, and never more than the number of those
\* sessions.
C13_ActiveDays ==
    Shown =>
      /\ Val(stats).month.workout_days
           = Cardinality({ workouts[i].date : i \in MonthSessions(selected_month) })
      /\ Val(stats).month.workout_days <= Cardinality(MonthSessions(selected_month))
      /\ Val(stats).prev.workout_days
           = Cardinality({ workouts[i].date : i \in MonthSessions(PrevMonthOf(selected_month)) })
      /\ Val(stats).prev.workout_days <= Cardinality(MonthSessions(PrevMonthOf(selected_month)))

\* C13 witness: two sessions of the user on one date of the selected month,
\* shown as one active day.
C13_Witness ==
    /\ Shown
    /\ Cardinality(MonthSessions(selected_month)) = 2
    /\ workouts[1].date = workouts[2].date
    /\ Val(stats).month.workout_days = 1

\* The sum of a column of the sheet over the positions S
RECURSIVE SheetSum(_, _)
SheetSum(S, col) ==
    IF S = {} THEN 0
    ELSE LET i == CHOOSE j \in S : TRUE
         IN  Cell(workouts[i], col) + SheetSum(S \ {i}, col)

\* The figures claimed for the sessions at the positions S of the sheet
ClaimedFigures(S) ==
    [total_km |-> SheetSum(S, "distance_km"),
     total_min |-> SheetSum(S, "time_min"),
     total_kcal |-> SheetSum(S, "calories"),
     vertical_sum |-> SheetSum(S, "vertical_feet"),
     workout_days |-> Cardinality({ workouts[i].date : i \in S }),
     avg_speed |-> IF SheetSum(S, "time_min") > 0
                   THEN << SheetSum(S, "distance_km") * 6, SheetSum(S, "time_min") * 10000 >>
                   ELSE << 0, 1 >>]

\* The run of the progress page has ended
ProgressRan == ~rerun /\ page = "progress" /\ stats # None

\* C14 (as claimed): for every sheet and selected month the progress page
\* shows, for the month and for the month before, the sums over the user's
\* sessions dated in that month, all of them 0 with 0 active days and speed 0
\* when there is no such session, the empty sheet included.
C14_MonthTotals ==
    ProgressRan =>
      /\ Val(stats).result = "shown"
      /\ Val(stats).month = ClaimedFigures(MonthSessions(selected_month))
      /\ Val(stats).prev = ClaimedFigures(MonthSessions(PrevMonthOf(selected_month)))

\* The distance of the selected month's sessions, in millionths of a km
MonthKm == SheetSum(MonthSessions(selected_month), "distance_km")

\* C16: the goal completion the progress page shows is 0 for a goal that is
\* not positive, the quotient of the month's distance by the goal while the
\* distance is below the goal, and 1 from the goal on; it lies between 0 and
\* 1 for a distance that is not negative (50 km of 100 give one half, 150 km
\* of 100 give 1).
C16_GoalCompletion ==
    Shown =>
      LET p == Val(stats).percent
          g == Val(stats).goal_km
      IN  /\ g <= 0 => p = << 0, 1 >>
          /\ (g > 0 /\ MonthKm < g * 1000000) => p = << MonthKm, g * 1000000 >>
          /\ (g > 0 /\ MonthKm >= g * 1000000) => p[1] = p[2]
          /\ MonthKm >= 0 => (p[2] > 0 /\ 0 <= p[1] /\ p[1] <= p[2])
          /\ (g = 100 /\ MonthKm = 50 * 1000000) => 2 * p[1] = p[2]
          /\ (g = 100 /\ MonthKm = 150 * 1000000) => p[1] = p[2]

\* C16 witness: 150 km logged in the selected month against a goal of
\* 100 km, shown as a completion of 1.
C16_Witness ==
    /\ Shown
    /\ Val(stats).goal_km = 100
    /\ MonthKm = 150 * 1000000
    /\ Val(stats).percent = << 1, 1 >>

\* Both comparators have returned
Compared == cmp # None /\ Val(cmp).raw # None /\ Val(cmp).pct # None

\* C15: for a previous figure of 0 both comparators return the empty
\* result; otherwise raw_delta's delta is current - previous with the arrow
\* up, down or flat by its sign, and percent_delta's delta is
\* (current - previous) / previous * 100.
C15_PeriodComparison ==
    Compared =>
      LET c == Val(cmp).current
          p == Val(cmp).previous
          raw == Val(Val(cmp).raw)
          pct == Val(Val(cmp).pct)
      IN  IF p = 0 THEN raw = [kind |-> "none"] /\ pct = [kind |-> "none"]
          ELSE /\ raw.kind \in {"up", "down", "flat"}
               /\ raw.delta[2] # 0
               /\ raw.delta[1] * 2 = (c - p) * raw.delta[2]
               /\ raw.kind = "up" <=> c - p > 0
               /\ raw.kind = "down" <=> c - p < 0
               /\ raw.kind = "flat" <=> c = p
               /\ pct.kind \in {"up", "down", "flat"}
               /\ pct.delta[2] # 0
               /\ pct.delta[1] * p = (c - p) * 100 * pct.delta[2]

\* C15 witness: current 2.5 against previous 0 compared, with the empty
\* result from both comparators.
C15_Witness ==
    /\ Compared
    /\ Val(cmp).current = 5
    /\ Val(cmp).previous = 0
    /\ Val(Val(cmp).raw).kind = "none"
    /\ Val(Val(cmp).pct).kind = "none"

\* The number of a month, counted from month 1 of year 0
MonthIndex(d) == d[1] * 12 + (d[2] - 1)

\* C18: at every moment selected_month is the first day of a month, the
\* month the session started in shifted by the number of next-month presses
\* minus the number of previous-month presses (so a press undoes the
\* opposite one); and every press leaves selected_day None.
C18_MonthNavigation ==
    [][/\ selected_month[3] = 1 /\ selected_month'[3] = 1
       /\ selected_month[2] \in 1..12 /\ selected_month'[2] \in 1..12
       /\ MonthIndex(selected_month) = MonthIndex(today) + presses
       /\ MonthIndex(selected_month') = MonthIndex(today') + presses'
       /\ presses' # presses => selected_day' = None
       /\ selected_month' # selected_month => presses' # presses]_vars

\* C18 witness: three presses of the previous-month button from January
\* 2024 have led to October 2023.
C18_Witness ==
    /\ today = << 2024, 1, 30 >>
    /\ presses = -3
    /\ selected_month = << 2023, 10, 1 >>
    /\ selected_day = None

\* The day after d in the calendar
NextDay(d) ==
    IF d[3] < DaysIn(d[1], d[2]) THEN << d[1], d[2], d[3] + 1 >>
    ELSE IF d[2] < 12 THEN << d[1], d[2] + 1, 1 >>
    ELSE << d[1] + 1, 1, 1 >>

\* The day of the week of d, 0 for Sunday, by the formula of Sakamoto
MonthOffset == << 0, 3, 2, 5, 0, 3, 5, 1, 4, 6, 2, 4 >>

DayOfWeek(d) ==
    LET y == IF d[2] < 3 THEN d[1] - 1 ELSE d[1]
    IN  (y + y \div 4 - y \div 100 + y \div 400 + MonthOffset[d[2]] + d[3]) % 7

\* The grid read row by row
RECURSIVE Flatten(_)
Flatten(ws) == IF ws = << >> THEN << >> ELSE Head(ws) \o Flatten(Tail(ws))

InSelectedMonth(d) == d[1] = selected_month[1] /\ d[2] = selected_month[2]

\* The home page has shown the calendar of the selected month in this run
GridShown == ~rerun /\ page = "home"

\* C19: the grid the home page shows is a run of consecutive dates from a
\* Monday to a Sunday in weeks of 7 days, holds every day of the selected
\* month exactly once, and has a day of the month in its first and in its
\* last week.
C19_CalendarGrid ==
    GridShown =>
      LET all == Flatten(weeks)
      IN  /\ weeks # << >>
          /\ \A w \in 1..Len(weeks) : Len(weeks[w]) = 7
          /\ \A i \in 1..(Len(all) - 1) : all[i + 1] = NextDay(all[i])
          /\ DayOfWeek(all[1]) = 1
          /\ DayOfWeek(all[Len(all)]) = 0
          /\ \A k \in 1..DaysIn(selected_month[1], selected_month[2]) :
               Cardinality({ i \in 1..Len(all) :
                             all[i] = << selected_month[1], selected_month[2], k >> }) = 1
          /\ \E i \in 1..7 : InSelectedMonth(weeks[1][i])
          /\ \E i \in 1..7 : InSelectedMonth(weeks[Len(weeks)][i])

\* C19 witness: the grid of May 2021, six weeks from Monday 26 April to
\* Sunday 6 June.
C19_Witness ==
    /\ GridShown
    /\ selected_month = << 2021, 5, 1 >>
    /\ Len(weeks) = 6
    /\ weeks[1][1] = << 2021, 4, 26 >>
    /\ weeks[6][7] = << 2021, 6, 6 >>

=============================================================================
